---- MODULE Spec2Model ----
(***************************************************************************)
(* Slime mold (Physarum) agent simulation, src/main.py.                    *)
(*                                                                         *)
(* State: the two Taichi fields trail_map / diffused_trail_map, the three  *)
(* per-agent fields of Agent_System (agents_pos, agents_angle,             *)
(* agents_color), gui.running, and the position of the main program.       *)
(*                                                                         *)
(* Numbers.  The program computes in f32.  The model uses fixed point:     *)
(*   - a coordinate is an integer count of 1/PosUnit of a cell;            *)
(*   - a trail value is an integer count of 1/ValUnit (ValUnit = 1.0);     *)
(*   - an angle is an integer count of pi/4 (AGENT_ROTATION_ANGLE and      *)
(*     SENSOR_ANGLE are both pi/4, a full turn is 8);                      *)
(*   - ti.random() returns k/8 for a k drawn from RandomDraws.             *)
(* Divisions round toward minus infinity once, at the end of a formula.    *)
(*                                                                         *)
(* Parallel kernels.  A Taichi kernel's outermost for loop is run in       *)
(* parallel; two outermost loops of one kernel run one after the other.    *)
(* A parallel loop is modelled by a set of pending indices from which any  *)
(* index may be taken next.                                                *)
(***************************************************************************)
EXTENDS Integers, FiniteSets, Sequences, TLC

\* ------------------------------------------------------------------ sizes
\* The program's sizes, scaled down (main.py: 800, 600, 100000, 9.0).
WIN_WIDTH == 3
WIN_HEIGHT == 3
NUM_AGENTS == 2
SENSOR_OFFSET == 1
\* The loop of main.py has no bound; the model stops after MaxTicks ticks.
MaxTicks == 2

\* ------------------------------------------------------- program constants
AGENT_SPEED == 1
\* pi/4, in units of pi/4
AGENT_ROTATION_ANGLE == 1
SENSOR_ANGLE == 1
SENSOR_SCALE == 0
\* 0.01 and 0.1, in units of 1/ValUnit
DECAY_RATE == 10
DIFFUSE_RATE == 100

\* ---------------------------------------------------------- fixed point
PosUnit == 2 * 5
ValUnit == 10 * 10 * 10
FullTurn == 8 * AGENT_ROTATION_ANGLE
\* ti.random() is k/8 for k in RandomDraws (a value of [0, 1))
RandUnit == 2 * 4
RandomDraws == {2, 5}

Agents == 0 .. (NUM_AGENTS - 1)
Cells == (0 .. (WIN_WIDTH - 1)) \X (0 .. (WIN_HEIGHT - 1))
Channels == 1 .. 3

Max(a, b) == IF a >= b THEN a ELSE b
Min(a, b) == IF a <= b THEN a ELSE b

\* ti.cos / ti.sin of an angle, times PosUnit (0.7071 -> 7)
CosTable == <<10, 7, 0, -7, -10, -7, 0, 7>>
Cos(a) == CosTable[(a % FullTurn) + 1]
Sin(a) == Cos(a - 2)

\* float -> int index cast of a coordinate: truncation toward zero
Trunc(x) == IF x >= 0 THEN x \div PosUnit ELSE -((-x) \div PosUnit)
CellOf(p) == <<Trunc(p[1]), Trunc(p[2])>>

\* (variant: an angle of [-pi, pi))
RandomAngleSigned(k) == (k * FullTurn) \div RandUnit - FullTurn \div 2

\* ti.random() * math.pi * 2 and ti.random() * WIN_WIDTH
RandomAngle(k) == (k * FullTurn) \div RandUnit
RandomCoord(k, size) == (k * size * PosUnit) \div RandUnit

ZeroVec == <<0, 0, 0>>
White == <<ValUnit, ValUnit, ValUnit>>

VARIABLES
    trail_map,            \* [Cells -> 3-vector]
    diffused_trail_map,   \* [Cells -> 3-vector]
    agents_pos,           \* [Agents -> <<x, y>>]
    agents_angle,         \* [Agents -> Int]
    agents_color,         \* [Agents -> 3-vector]
    running,              \* gui.running
    pc,                   \* where the main program is
    todo,                 \* agents the running kernel has yet to process
    todo_cells,           \* cells the running kernel loop has yet to process
    tick,                 \* completed iterations of the while loop
    \* history, read by no action's guard or result:
    esc_seen,             \* an ESCAPE press was delivered by gui.get_events
    pre_move,             \* trail_map when the current tick's move() started
    pre_map,              \* trail_map when the current process_map() started
    deposited,            \* cells written by move() in the current tick
    pre_agents,           \* <<agents_pos, agents_angle>> at that move()'s start
    phases,               \* calls completed in the current tick, in order
    last                  \* the step taken last: [op, agent, branch]

vars == <<trail_map, diffused_trail_map, agents_pos, agents_angle, agents_color,
          running, pc, todo, todo_cells, tick,
          esc_seen, pre_move, pre_map, deposited, pre_agents, phases, last>>

agent_vars == <<agents_pos, agents_angle, agents_color>>
field_vars == <<trail_map, diffused_trail_map>>
hist_vars == <<esc_seen, pre_move, pre_map, deposited, pre_agents, phases>>

ZeroField == [c \in Cells |-> ZeroVec]
NoStep == [op |-> "none", agent |-> -1, branch |-> "none"]

\* ti.init, the field declarations (zero-filled), Agent_System(NUM_AGENTS);
\* the program is about to call initialize_agents().
Init ==
    /\ trail_map = ZeroField
    /\ diffused_trail_map = ZeroField
    /\ agents_pos = [i \in Agents |-> <<0, 0>>]
    /\ agents_angle = [i \in Agents |-> 0]
    /\ agents_color = [i \in Agents |-> ZeroVec]
    /\ running = TRUE
    /\ pc = "initialize_agents"
    /\ todo = Agents
    /\ todo_cells = {}
    /\ tick = 0
    /\ esc_seen = FALSE
    /\ pre_move = ZeroField
    /\ pre_map = ZeroField
    /\ deposited = {}
    /\ pre_agents = <<agents_pos, agents_angle>>
    /\ phases = <<>>
    /\ last = NoStep

\* (variant: the loop body calls sense() before process_map())
PhaseAfterSenseFirst(p) ==
    CASE p = "initialize_agents" -> "while"
      [] p = "events" -> "move"
      [] p = "move" -> "sense"
      [] p = "sense" -> "process_map"
      [] p = "copy" -> "set_image"
      [] OTHER -> "while"

\* The statement that follows each kernel call in the loop body.
PhaseAfter(p) ==
    CASE p = "initialize_agents" -> "while"
      [] p = "events" -> "move"
      [] p = "move" -> "process_map"
      [] p = "copy" -> "sense"
      [] p = "sense" -> "set_image"
      [] OTHER -> "while"

\* One index of a kernel's parallel loop over the agents is done; the kernel
\* returns when none is left.
FinishAgent(i) ==
    /\ todo' = todo \ {i}
    /\ pc' = IF todo' = {} THEN PhaseAfter(pc) ELSE pc

\* ------------------------------------------------------ initialize_agents
\* (variant: agent 0 is of a red species, the others are white)
InitializeAgentSpecies(i) ==
    /\ pc = "initialize_agents"
    /\ i \in todo
    /\ \E ka \in RandomDraws, kx \in RandomDraws, ky \in RandomDraws :
        /\ agents_angle' = [agents_angle EXCEPT ![i] = RandomAngle(ka)]
        /\ agents_pos' = [agents_pos EXCEPT
                            ![i] = <<RandomCoord(kx, WIN_WIDTH),
                                     RandomCoord(ky, WIN_HEIGHT)>>]
    /\ agents_color' = [agents_color EXCEPT
                          ![i] = IF i = 0 THEN <<ValUnit, 0, 0>> ELSE White]
    /\ FinishAgent(i)
    /\ last' = [op |-> "initialize_agents", agent |-> i, branch |-> "none"]
    /\ UNCHANGED <<field_vars, running, todo_cells, tick, hist_vars>>

InitializeAgent(i) ==
    /\ pc = "initialize_agents"
    /\ i \in todo
    /\ \E ka \in RandomDraws, kx \in RandomDraws, ky \in RandomDraws :
        /\ agents_angle' = [agents_angle EXCEPT ![i] = RandomAngle(ka)]
        /\ agents_pos' = [agents_pos EXCEPT
                            ![i] = <<RandomCoord(kx, WIN_WIDTH),
                                     RandomCoord(ky, WIN_HEIGHT)>>]
    /\ agents_color' = [agents_color EXCEPT ![i] = White]
    /\ FinishAgent(i)
    /\ last' = [op |-> "initialize_agents", agent |-> i, branch |-> "none"]
    /\ UNCHANGED <<field_vars, running, todo_cells, tick, hist_vars>>

\* ------------------------------------------------------------- main loop
\* (variant: the loop gives up after its first tick, quit or not)
WhileOnce ==
    /\ pc = "while"
    /\ IF running /\ tick < 1
         THEN tick < MaxTicks /\ pc' = "events"
         ELSE pc' = "done"
    /\ last' = [op |-> "while", agent |-> -1,
                branch |-> IF running /\ tick < 1 THEN "enter" ELSE "exit"]
    /\ UNCHANGED <<field_vars, agent_vars, running, todo, todo_cells, tick,
                   hist_vars>>

\* while gui.running:
While ==
    /\ pc = "while"
    /\ IF running
         THEN tick < MaxTicks /\ pc' = "events"
         ELSE pc' = "done"
    /\ last' = [op |-> "while", agent |-> -1,
                branch |-> IF running THEN "enter" ELSE "exit"]
    /\ UNCHANGED <<field_vars, agent_vars, running, todo, todo_cells, tick,
                   hist_vars>>

\* (variant: an ESCAPE press is read and gui.running is left as it is)
EventsNoStop ==
    /\ pc = "events"
    /\ \E esc \in BOOLEAN :
        /\ esc_seen' = (esc_seen \/ esc)
        /\ last' = [op |-> "events", agent |-> -1,
                    branch |-> IF esc THEN "escape" ELSE "none"]
    /\ pc' = PhaseAfter(pc)
    /\ todo' = Agents
    /\ pre_move' = trail_map
    /\ deposited' = {}
    /\ pre_agents' = <<agents_pos, agents_angle>>
    /\ phases' = <<>>
    /\ UNCHANGED <<field_vars, agent_vars, running, todo_cells, tick, pre_map>>

\* for e in gui.get_events(gui.PRESS): if e.key == gui.ESCAPE: ...
\* The events delivered hold an ESCAPE press or not.
Events ==
    /\ pc = "events"
    /\ \E esc \in BOOLEAN :
        /\ running' = IF esc THEN FALSE ELSE running
        /\ esc_seen' = (esc_seen \/ esc)
        /\ last' = [op |-> "events", agent |-> -1,
                    branch |-> IF esc THEN "escape" ELSE "none"]
    /\ pc' = PhaseAfter(pc)
    /\ todo' = Agents
    /\ pre_move' = trail_map
    /\ deposited' = {}
    /\ pre_agents' = <<agents_pos, agents_angle>>
    /\ phases' = <<>>
    /\ UNCHANGED <<field_vars, agent_vars, todo_cells, tick, pre_map>>

\* ------------------------------------------------------------------ move
\* (variant: sine and cosine are exchanged)
CandidateSwapped(i) ==
    <<agents_pos[i][1] + Sin(agents_angle[i]) * AGENT_SPEED,
      agents_pos[i][2] + Cos(agents_angle[i]) * AGENT_SPEED>>

\* self.agents_pos[i, 0] + [cos(angle), sin(angle)] * self.agent_speed
Candidate(i) ==
    <<agents_pos[i][1] + Cos(agents_angle[i]) * AGENT_SPEED,
      agents_pos[i][2] + Sin(agents_angle[i]) * AGENT_SPEED>>

\* (variant: only the lower bounds are tested)
InFieldNoUpper(p) == 0 <= p[1] /\ 0 <= p[2]

\* 0 <= new_position[0] < WIN_WIDTH and 0 <= new_position[1] < WIN_HEIGHT
InField(p) ==
    /\ 0 <= p[1] /\ p[1] < WIN_WIDTH * PosUnit
    /\ 0 <= p[2] /\ p[2] < WIN_HEIGHT * PosUnit

\* (variant: the colour is added to the cell's value)
DepositAdd(map, p, color) ==
    [map EXCEPT ![CellOf(p)] = [ch \in Channels |-> @[ch] + color[ch]]]

\* (variant: the two coordinates of the index are exchanged)
DepositTransposed(map, p, color) ==
    [map EXCEPT ![<<CellOf(p)[2], CellOf(p)[1]>>] = color]

\* trail_map[self.agents_pos[i, 0]] = self.agents_color[i, 0]
Deposit(map, p, color) == [map EXCEPT ![CellOf(p)] = color]

\* (variant: stores of one pass into one cell add up)
TornSum(old, new) == {<<old[1] + new[1], old[2] + new[2], old[3] + new[3]>>}

\* Line 51 in two agents of one pass that have the same cell: the stores of
\* the three channels are not ordered against the other agent's, so each
\* channel ends with the value of either store.  old is what the stores made
\* earlier in the pass have left, new the colour stored now.
Torn(old, new) ==
    { <<a, b, c>> : a \in {old[1], new[1]}, b \in {old[2], new[2]},
                    c \in {old[3], new[3]} }

\* the fields line 51 can leave; raced is the set of cells already stored
\* into in this pass
DepositOutcomes(map, p, color, raced) ==
    IF CellOf(p) \in raced
      THEN { [map EXCEPT ![CellOf(p)] = v] : v \in Torn(map[CellOf(p)], color) }
      ELSE { Deposit(map, p, color) }

MoveAgent(i) ==
    /\ pc = "move"
    /\ i \in todo
    /\ LET new_position == Candidate(i) IN
       IF InField(new_position)
         THEN /\ agents_pos' = [agents_pos EXCEPT ![i] = new_position]
              /\ trail_map' \in DepositOutcomes(trail_map, new_position,
                                              agents_color[i], deposited)
              /\ deposited' = deposited \cup {CellOf(new_position)}
              /\ last' = [op |-> "move", agent |-> i, branch |-> "deposit"]
              /\ UNCHANGED agents_angle
         ELSE /\ \E k \in RandomDraws :
                    agents_angle' = [agents_angle EXCEPT ![i] = RandomAngle(k)]
              /\ last' = [op |-> "move", agent |-> i, branch |-> "reaim"]
              /\ UNCHANGED <<agents_pos, trail_map, deposited>>
    /\ FinishAgent(i)
    /\ pre_map' = IF pc' = "process_map" THEN trail_map' ELSE pre_map
    /\ todo_cells' = IF pc' = "process_map" THEN Cells ELSE todo_cells
    /\ phases' = IF todo' = {} THEN Append(phases, "move") ELSE phases
    /\ UNCHANGED <<diffused_trail_map, agents_color, running, tick,
                   esc_seen, pre_move, pre_agents>>

\* ----------------------------------------------------------- process_map
\* (variant: a sample index past an edge wraps to the opposite edge)
ClampWrap(x, hi) == x % (hi + 1)

\* max(0.0, min(WIN_WIDTH - 1, i + offsetX))
Clamp(x, hi) == Max(0, Min(hi, x))

\* <<sampleX, sampleY>> for the nine offsets of the blur at cell c, in the
\* order the two while loops visit them
SampleCells ==
    [c \in Cells |->
        [k \in 1 .. 9 |->
            <<Clamp(c[1] + ((k - 1) \div 3) - 1, WIN_WIDTH - 1),
              Clamp(c[2] + ((k - 1) % 3) - 1, WIN_HEIGHT - 1)>>]]

\* (variant: a sample past an edge is skipped instead of clamped, as the
\* sensor does, and the sum is still divided by 9)
SumBlurSkip(map, c) ==
    LET v(k, ch) ==
            LET d == <<c[1] + ((k - 1) \div 3) - 1, c[2] + ((k - 1) % 3) - 1>>
            IN  IF d \in Cells THEN map[d][ch] ELSE 0
    IN  [ch \in Channels |->
            v(1, ch) + v(2, ch) + v(3, ch) + v(4, ch) + v(5, ch)
          + v(6, ch) + v(7, ch) + v(8, ch) + v(9, ch)]

\* sum_blur after the 3x3 loop at cell c
SumBlur(map, c) ==
    LET n == SampleCells[c]
    IN  [ch \in Channels |->
            map[n[1]][ch] + map[n[2]][ch] + map[n[3]][ch]
          + map[n[4]][ch] + map[n[5]][ch] + map[n[6]][ch]
          + map[n[7]][ch] + map[n[8]][ch] + map[n[9]][ch]]

\* original * (1 - rate) + (sum_blur / 9) * rate, lines 73-74 with the
\* diffusion rate as a parameter
BlendWith(rate, original, sum_blur) ==
    (9 * original * (ValUnit - rate) + sum_blur * rate) \div (9 * ValUnit)

\* (variant: sum_blur is blended in without the division by 9)
BlendNoNormalise(original, sum_blur) ==
    (original * (ValUnit - DIFFUSE_RATE) + sum_blur * DIFFUSE_RATE)
        \div ValUnit

\* original * (1 - DIFFUSE_RATE) + (sum_blur / 9) * DIFFUSE_RATE
Blend(original, sum_blur) == BlendWith(DIFFUSE_RATE, original, sum_blur)

\* (variant: no floor at zero)
DecayNoFloor(x) == x - DECAY_RATE

\* (variant: nothing is subtracted)
DecayNone(x) == Max(0, x)

\* max(0.0, blurred_color[k] - DECAY_RATE)
Decay(x) == Max(0, x - DECAY_RATE)

\* the value process_map stores in diffused_trail_map[c]
DiffusedCell(map, c) ==
    LET sum_blur == SumBlur(map, c)
    IN  [ch \in Channels |-> Decay(Blend(map[c][ch], sum_blur[ch]))]

DiffusedField(map) == [c \in Cells |-> DiffusedCell(map, c)]

\* first loop of process_map, all cells
ProcessMapCompute ==
    /\ pc = "process_map"
    /\ todo_cells = Cells
    /\ diffused_trail_map' = DiffusedField(trail_map)
    /\ pc' = "copy"
    /\ last' = [op |-> "process_map", agent |-> -1, branch |-> "compute"]
    /\ UNCHANGED <<trail_map, agent_vars, running, todo, todo_cells, tick,
                   hist_vars>>

\* (variant: the second loop is missing, trail_map keeps its values)
ProcessMapNoCopy ==
    /\ pc = "copy"
    /\ todo_cells = Cells
    /\ pc' = PhaseAfter(pc)
    /\ todo' = Agents
    /\ todo_cells' = {}
    /\ last' = [op |-> "process_map", agent |-> -1, branch |-> "copy"]
    /\ phases' = Append(phases, "process_map")
    /\ UNCHANGED <<field_vars, agent_vars, running, tick,
                   esc_seen, pre_move, pre_map, deposited, pre_agents>>

\* second loop of process_map, all cells
ProcessMapCopy ==
    /\ pc = "copy"
    /\ todo_cells = Cells
    /\ trail_map' = [c \in Cells |-> diffused_trail_map[c]]
    /\ pc' = PhaseAfter(pc)
    /\ todo' = Agents
    /\ todo_cells' = {}
    /\ last' = [op |-> "process_map", agent |-> -1, branch |-> "copy"]
    /\ phases' = Append(phases, "process_map")
    /\ UNCHANGED <<diffused_trail_map, agent_vars, running, tick,
                   esc_seen, pre_move, pre_map, deposited, pre_agents>>

\* ---------------------------------------------------------------- sensor
\* (variant: the scalar sensor, which sums the field values themselves)
WeightedScalar(trail, color) == (trail[1] + trail[2] + trail[3]) * ValUnit

\* (trail * 2 - 1) . (color * 2 - 1), in units of 1/ValUnit^2
Weighted(trail, color) ==
      (2 * trail[1] - ValUnit) * (2 * color[1] - ValUnit)
    + (2 * trail[2] - ValUnit) * (2 * color[2] - ValUnit)
    + (2 * trail[3] - ValUnit) * (2 * color[3] - ValUnit)

SensorCentre(i, angle_offset) ==
    <<agents_pos[i][1] + Cos(agents_angle[i] + angle_offset) * SENSOR_OFFSET,
      agents_pos[i][2] + Sin(agents_angle[i] + angle_offset) * SENSOR_OFFSET>>

\* 0 <= sensor_centre[0] + offsetX < WIN_WIDTH and
\* 0 <= sensor_centre[1] + offsetY < WIN_HEIGHT
SampleInField(p) ==
    /\ 0 <= p[1] /\ p[1] < WIN_WIDTH * PosUnit
    /\ 0 <= p[2] /\ p[2] < WIN_HEIGHT * PosUnit

\* (variant: a sample outside the field is clamped to the nearest cell, as
\* process_map does)
SampleClamped(i, centre, o) ==
    LET p == <<centre[1] + o[1] * PosUnit, centre[2] + o[2] * PosUnit>>
        q == <<Max(0, Min(WIN_WIDTH * PosUnit - 1, p[1])),
               Max(0, Min(WIN_HEIGHT * PosUnit - 1, p[2]))>>
    IN  Weighted(trail_map[CellOf(q)], agents_color[i])

\* what the sample at offset o = <<offsetX, offsetY>> adds to sum_trail
Sample(i, centre, o) ==
    LET p == <<centre[1] + o[1] * PosUnit, centre[2] + o[2] * PosUnit>>
    IN  IF SampleInField(p)
          THEN Weighted(trail_map[CellOf(p)], agents_color[i])
          ELSE 0

\* sum_trail over the offsets in S
RECURSIVE SumTrail(_, _, _)
SumTrail(i, centre, S) ==
    IF S = {} THEN 0
    ELSE LET o == CHOOSE x \in S : TRUE
         IN  Sample(i, centre, o) + SumTrail(i, centre, S \ {o})

sensor(i, angle_offset) ==
    SumTrail(i, SensorCentre(i, angle_offset),
             (-SENSOR_SCALE .. SENSOR_SCALE) \X (-SENSOR_SCALE .. SENSOR_SCALE))

\* ----------------------------------------------------------------- sense
\* The branch of the if/elif chain taken for readings F, FR, FL; coin is
\* ti.random() > 0.5.
SteerBranch(F, FR, FL, coin) ==
    IF F > FR /\ F > FL THEN "ahead"
    ELSE IF F < FR /\ F < FL THEN (IF coin THEN "coin_minus" ELSE "coin_plus")
    ELSE IF FR > FL THEN "right"
    ELSE IF FL > FR THEN "left"
    ELSE "tie"

\* (variant: left and right are exchanged)
TurnSwapped(branch) ==
    CASE branch \in {"coin_minus", "left"} -> -AGENT_ROTATION_ANGLE
      [] branch \in {"coin_plus", "right"} -> AGENT_ROTATION_ANGLE
      [] OTHER -> 0

\* what the branch adds to agents_angle
Turn(branch) ==
    CASE branch \in {"coin_minus", "right"} -> -AGENT_ROTATION_ANGLE
      [] branch \in {"coin_plus", "left"} -> AGENT_ROTATION_ANGLE
      [] OTHER -> 0

SenseAgent(i) ==
    /\ pc = "sense"
    /\ i \in todo
    /\ LET F == sensor(i, 0)
           FR == sensor(i, -SENSOR_ANGLE)
           FL == sensor(i, SENSOR_ANGLE)
       IN  \E k \in RandomDraws :
             LET branch == SteerBranch(F, FR, FL, 2 * k > RandUnit) IN
             /\ agents_angle' = [agents_angle EXCEPT ![i] = @ + Turn(branch)]
             /\ last' = [op |-> "sense", agent |-> i, branch |-> branch]
    /\ FinishAgent(i)
    /\ phases' = IF todo' = {} THEN Append(phases, "sense") ELSE phases
    /\ UNCHANGED <<field_vars, agents_pos, agents_color, running, todo_cells,
                   tick, esc_seen, pre_move, pre_map, deposited, pre_agents>>

\* ------------------------------------------------------ set_image, show
SetImage ==
    /\ pc = "set_image"
    /\ pc' = PhaseAfter(pc)
    /\ tick' = tick + 1
    /\ last' = [op |-> "set_image", agent |-> -1, branch |-> "none"]
    /\ phases' = Append(phases, "set_image")
    /\ UNCHANGED <<field_vars, agent_vars, running, todo, todo_cells,
                   esc_seen, pre_move, pre_map, deposited, pre_agents>>

Next ==
    \/ \E i \in Agents : InitializeAgent(i)
    \/ While
    \/ Events
    \/ \E i \in Agents : MoveAgent(i)
    \/ ProcessMapCompute
    \/ ProcessMapCopy
    \/ \E i \in Agents : SenseAgent(i)
    \/ SetImage

Spec == Init /\ [][Next]_vars

\* ------------------------------------------ process_map, one cell at a time
\* (variant: the result is stored into trail_map itself as well)
ProcessCellInPlace(c) ==
    /\ pc = "process_map"
    /\ c \in todo_cells
    /\ diffused_trail_map' = [diffused_trail_map EXCEPT ![c] = DiffusedCell(trail_map, c)]
    /\ trail_map' = [trail_map EXCEPT ![c] = DiffusedCell(trail_map, c)]
    /\ todo_cells' = IF todo_cells = {c} THEN Cells ELSE todo_cells \ {c}
    /\ pc' = IF todo_cells = {c} THEN "copy" ELSE pc
    /\ last' = [op |-> "process_map", agent |-> -1, branch |-> "compute"]
    /\ UNCHANGED <<agent_vars, running, todo, tick, hist_vars>>

\* One index (i, j) of the first parallel loop: lines 59-78 for cell c.
ProcessCell(c) ==
    /\ pc = "process_map"
    /\ c \in todo_cells
    /\ diffused_trail_map' = [diffused_trail_map EXCEPT ![c] = DiffusedCell(trail_map, c)]
    /\ todo_cells' = IF todo_cells = {c} THEN Cells ELSE todo_cells \ {c}
    /\ pc' = IF todo_cells = {c} THEN "copy" ELSE pc
    /\ last' = [op |-> "process_map", agent |-> -1, branch |-> "compute"]
    /\ UNCHANGED <<trail_map, agent_vars, running, todo, tick, hist_vars>>

\* One index (i, j) of the second parallel loop: line 80 for cell c.
CopyCell(c) ==
    /\ pc = "copy"
    /\ c \in todo_cells
    /\ trail_map' = [trail_map EXCEPT ![c] = diffused_trail_map[c]]
    /\ todo_cells' = todo_cells \ {c}
    /\ pc' = IF todo_cells = {c} THEN PhaseAfter(pc) ELSE pc
    /\ todo' = IF todo_cells = {c} THEN Agents ELSE todo
    /\ last' = [op |-> "process_map", agent |-> -1, branch |-> "copy"]
    /\ phases' = IF todo_cells = {c} THEN Append(phases, "process_map") ELSE phases
    /\ UNCHANGED <<diffused_trail_map, agent_vars, running, tick,
                   esc_seen, pre_move, pre_map, deposited, pre_agents>>

\* Fields handed to one process_map pass: a uniform background b, on which
\* move() has deposited white into the cells D, for <<b, D>> in MapInputs.
MapInputs ==
    { <<0, {<<1, 1>>}>>,
      <<ValUnit \div 2, {<<0, 0>>, <<1, 0>>}>> }
Uniform(v) == [c \in Cells |-> <<v, v, v>>]
WithDeposits(map, D) == [c \in Cells |-> IF c \in D THEN White ELSE map[c]]

\* The program at a call of process_map(): agents initialised, the scratch
\* buffer as the previous pass left it, deposits made since.
InitMap ==
    /\ \E inp \in MapInputs :
        /\ diffused_trail_map = Uniform(inp[1])
        /\ trail_map = WithDeposits(Uniform(inp[1]), inp[2])
        /\ deposited = inp[2]
    /\ pre_map = trail_map
    /\ pre_move = diffused_trail_map
    /\ agents_pos = [i \in Agents |-> <<PosUnit \div 2, PosUnit \div 2>>]
    /\ agents_angle = [i \in Agents |-> 0]
    /\ agents_color = [i \in Agents |-> White]
    /\ running = TRUE
    /\ pc = "process_map"
    /\ todo = {}
    /\ todo_cells = Cells
    /\ tick = 0
    /\ esc_seen = FALSE
    /\ pre_agents = <<agents_pos, agents_angle>>
    /\ phases = <<"move">>
    /\ last = NoStep

NextMap ==
    \/ \E c \in Cells : ProcessCell(c)
    \/ \E c \in Cells : CopyCell(c)

SpecMap == InitMap /\ [][NextMap]_vars

\* --------------------------------- process_map, pass after pass, no deposit
\* Fields handed to the first pass: a uniform background b with white in the
\* cells D, for <<b, D>> in PassInputs.
PassInputs ==
    { <<0, {}>>,
      <<DECAY_RATE \div 2, {}>>,
      <<ValUnit \div 2, {}>>,
      <<ValUnit, {}>>,
      <<0, {<<1, 1>>}>>,
      <<ValUnit \div 2, {<<0, 0>>, <<1, 0>>}>> }

InitPass ==
    /\ \E inp \in PassInputs :
        /\ diffused_trail_map = Uniform(inp[1])
        /\ trail_map = WithDeposits(Uniform(inp[1]), inp[2])
        /\ deposited = inp[2]
    /\ pre_map = trail_map
    /\ pre_move = diffused_trail_map
    /\ agents_pos = [i \in Agents |-> <<PosUnit \div 2, PosUnit \div 2>>]
    /\ agents_angle = [i \in Agents |-> 0]
    /\ agents_color = [i \in Agents |-> White]
    /\ running = TRUE
    /\ pc = "process_map"
    /\ todo = {}
    /\ todo_cells = Cells
    /\ tick = 0
    /\ esc_seen = FALSE
    /\ pre_agents = <<agents_pos, agents_angle>>
    /\ phases = <<"move">>
    /\ last = NoStep

\* process_map() is called again on the field the last pass left, with no
\* move() in between.
CallProcessMap ==
    /\ pc = "sense"
    /\ pc' = "process_map"
    /\ todo' = {}
    /\ todo_cells' = Cells
    /\ pre_map' = trail_map
    /\ deposited' = {}
    /\ phases' = <<"move">>
    /\ last' = [op |-> "process_map", agent |-> -1, branch |-> "call"]
    /\ UNCHANGED <<field_vars, agent_vars, running, tick, esc_seen, pre_move,
                   pre_agents>>

NextPass ==
    \/ ProcessMapCompute
    \/ ProcessMapCopy
    \/ CallProcessMap

SpecPass == InitPass /\ [][NextPass]_vars

\* every call returns and the next call is made
SpecPassFair == SpecPass /\ WF_vars(NextPass)

\* ------------------------------------------- sense, from any agent pose
\* Fields handed to sense(): what process_map leaves of a uniform background
\* b with white in the cells D, for <<b, D>> in SenseInputs.
SenseInputs ==
    { <<0, {}>>,
      <<0, {<<1, 1>>}>>,
      <<ValUnit \div 2, {<<0, 0>>, <<1, 0>>}>> }

\* coordinates an agent may have along an axis of the given size: the two
\* ends of [0, size) and the middle of every cell
SenseCoords(size) ==
    {0, size * PosUnit - 1}
        \cup { c * PosUnit + PosUnit \div 2 : c \in 0 .. size - 1 }

\* The program at a call of sense(): move() and process_map() are complete,
\* the agents, all in one pose, are anywhere in the field with any heading.
InitSense ==
    /\ \E inp \in SenseInputs :
        trail_map = DiffusedField(WithDeposits(Uniform(inp[1]), inp[2]))
    /\ diffused_trail_map = trail_map
    /\ pre_map = trail_map
    /\ pre_move = trail_map
    /\ deposited = {}
    /\ \E x \in SenseCoords(WIN_WIDTH), y \in SenseCoords(WIN_HEIGHT) :
        agents_pos = [i \in Agents |-> <<x, y>>]
    /\ \E a \in 0 .. FullTurn - 1 : agents_angle = [i \in Agents |-> a]
    /\ agents_color = [i \in Agents |-> White]
    /\ running = TRUE
    /\ pc = "sense"
    /\ todo = Agents
    /\ todo_cells = {}
    /\ tick = 0
    /\ esc_seen = FALSE
    /\ pre_agents = <<agents_pos, agents_angle>>
    /\ phases = <<"move", "process_map">>
    /\ last = NoStep

NextSense == \E i \in Agents : SenseAgent(i)

SpecSense == InitSense /\ [][NextSense]_vars

\* ------------------------------------------- the straight-line scenario
\* The program configured as the scenario says: a 10x10 field, DECAY_RATE
\* and DIFFUSE_RATE 0, one agent; every other constant as in the source,
\* SENSOR_OFFSET = 9.0 included.
LineWidth == 10
LineHeight == 10
LineDecayRate == 0
LineDiffuseRate == 0
LineSensorOffset == 9
LineTicks == 7

LineAgents == {0}
LineCells == (0 .. LineWidth - 1) \X (0 .. LineHeight - 1)
LineStart == <<5 * PosUnit, 5 * PosUnit>>

\* The scenario's start: the field all zero, the agent at (5, 5) with
\* heading 0 and the colour of line 130, the loop about to be entered.
InitLine ==
    /\ trail_map = [c \in LineCells |-> ZeroVec]
    /\ diffused_trail_map = [c \in LineCells |-> ZeroVec]
    /\ agents_pos = [i \in LineAgents |-> LineStart]
    /\ agents_angle = [i \in LineAgents |-> 0]
    /\ agents_color = [i \in LineAgents |-> White]
    /\ running = TRUE
    /\ pc = "while"
    /\ todo = {}
    /\ todo_cells = {}
    /\ tick = 0
    /\ esc_seen = FALSE
    /\ pre_move = trail_map
    /\ pre_map = trail_map
    /\ deposited = {}
    /\ pre_agents = <<agents_pos, agents_angle>>
    /\ phases = <<>>
    /\ last = NoStep

\* while gui.running:
LineWhile ==
    /\ pc = "while"
    /\ IF running
         THEN tick < LineTicks /\ pc' = "events"
         ELSE pc' = "done"
    /\ last' = [op |-> "while", agent |-> -1,
                branch |-> IF running THEN "enter" ELSE "exit"]
    /\ UNCHANGED <<field_vars, agent_vars, running, todo, todo_cells, tick,
                   hist_vars>>

\* lines 138-140
LineEvents ==
    /\ pc = "events"
    /\ \E esc \in BOOLEAN :
        /\ running' = IF esc THEN FALSE ELSE running
        /\ esc_seen' = (esc_seen \/ esc)
        /\ last' = [op |-> "events", agent |-> -1,
                    branch |-> IF esc THEN "escape" ELSE "none"]
    /\ pc' = PhaseAfter(pc)
    /\ todo' = LineAgents
    /\ pre_move' = trail_map
    /\ deposited' = {}
    /\ pre_agents' = <<agents_pos, agents_angle>>
    /\ phases' = <<>>
    /\ UNCHANGED <<field_vars, agent_vars, todo_cells, tick, pre_map>>

\* line 49 on the scenario's field
LineInField(p) ==
    /\ 0 <= p[1] /\ p[1] < LineWidth * PosUnit
    /\ 0 <= p[2] /\ p[2] < LineHeight * PosUnit

\* move(), lines 45-53, for the scenario's agent
LineMove(i) ==
    /\ pc = "move"
    /\ i \in todo
    /\ LET new_position == Candidate(i) IN
       IF LineInField(new_position)
         THEN /\ agents_pos' = [agents_pos EXCEPT ![i] = new_position]
              /\ trail_map' = Deposit(trail_map, new_position, agents_color[i])
              /\ deposited' = deposited \cup {CellOf(new_position)}
              /\ last' = [op |-> "move", agent |-> i, branch |-> "deposit"]
              /\ UNCHANGED agents_angle
         ELSE /\ \E k \in RandomDraws :
                    agents_angle' = [agents_angle EXCEPT ![i] = RandomAngle(k)]
              /\ last' = [op |-> "move", agent |-> i, branch |-> "reaim"]
              /\ UNCHANGED <<agents_pos, trail_map, deposited>>
    /\ FinishAgent(i)
    /\ pre_map' = IF pc' = "process_map" THEN trail_map' ELSE pre_map
    /\ todo_cells' = IF pc' = "process_map" THEN LineCells ELSE todo_cells
    /\ phases' = IF todo' = {} THEN Append(phases, "move") ELSE phases
    /\ UNCHANGED <<diffused_trail_map, agents_color, running, tick,
                   esc_seen, pre_move, pre_agents>>

\* lines 59-78 at cell c of the scenario's field, channel ch
LineDiffused(map, c, ch) ==
    LET s(dx, dy) == map[<<Clamp(c[1] + dx, LineWidth - 1),
                           Clamp(c[2] + dy, LineHeight - 1)>>][ch]
        sum_blur == s(-1, -1) + s(-1, 0) + s(-1, 1)
                  + s(0, -1) + s(0, 0) + s(0, 1)
                  + s(1, -1) + s(1, 0) + s(1, 1)
    IN  Max(0, BlendWith(LineDiffuseRate, map[c][ch], sum_blur)
                 - LineDecayRate)

\* first loop of process_map, all cells
LineCompute ==
    /\ pc = "process_map"
    /\ todo_cells = LineCells
    /\ diffused_trail_map' =
            [c \in LineCells |->
                [ch \in Channels |-> LineDiffused(trail_map, c, ch)]]
    /\ pc' = "copy"
    /\ last' = [op |-> "process_map", agent |-> -1, branch |-> "compute"]
    /\ UNCHANGED <<trail_map, agent_vars, running, todo, todo_cells, tick,
                   hist_vars>>

\* second loop of process_map, all cells
LineCopy ==
    /\ pc = "copy"
    /\ todo_cells = LineCells
    /\ trail_map' = [c \in LineCells |-> diffused_trail_map[c]]
    /\ pc' = PhaseAfter(pc)
    /\ todo' = LineAgents
    /\ todo_cells' = {}
    /\ last' = [op |-> "process_map", agent |-> -1, branch |-> "copy"]
    /\ phases' = Append(phases, "process_map")
    /\ UNCHANGED <<diffused_trail_map, agent_vars, running, tick,
                   esc_seen, pre_move, pre_map, deposited, pre_agents>>

\* sensor(), lines 85-101, on the scenario's field with SENSOR_OFFSET = 9.0
\* (SENSOR_SCALE = 0: the one sample at the centre)
LineSensor(i, angle_offset) ==
    LET p == <<agents_pos[i][1]
                 + Cos(agents_angle[i] + angle_offset) * LineSensorOffset,
               agents_pos[i][2]
                 + Sin(agents_angle[i] + angle_offset) * LineSensorOffset>>
    IN  IF LineInField(p)
          THEN Weighted(trail_map[CellOf(p)], agents_color[i])
          ELSE 0

\* sense(), lines 105-123, for the scenario's agent
LineSense(i) ==
    /\ pc = "sense"
    /\ i \in todo
    /\ LET F == LineSensor(i, 0)
           FR == LineSensor(i, -SENSOR_ANGLE)
           FL == LineSensor(i, SENSOR_ANGLE)
       IN  \E k \in RandomDraws :
             LET branch == SteerBranch(F, FR, FL, 2 * k > RandUnit) IN
             /\ agents_angle' = [agents_angle EXCEPT ![i] = @ + Turn(branch)]
             /\ last' = [op |-> "sense", agent |-> i, branch |-> branch]
    /\ FinishAgent(i)
    /\ phases' = IF todo' = {} THEN Append(phases, "sense") ELSE phases
    /\ UNCHANGED <<field_vars, agents_pos, agents_color, running, todo_cells,
                   tick, esc_seen, pre_move, pre_map, deposited, pre_agents>>

NextLine ==
    \/ LineWhile
    \/ LineEvents
    \/ \E i \in LineAgents : LineMove(i)
    \/ LineCompute
    \/ LineCopy
    \/ \E i \in LineAgents : LineSense(i)
    \/ SetImage

SpecLine == InitLine /\ [][NextLine]_vars

\* ========================================================== properties
FullTick == <<"move", "process_map", "sense", "set_image">>

\* C1 (Containment): in every state, before and after initialize_agents and
\* through every step of every tick, every agent's position satisfies
\* 0 <= x < width and 0 <= y < height.
Containment ==
    \A i \in Agents :
        /\ 0 <= agents_pos[i][1] /\ agents_pos[i][1] < WIN_WIDTH * PosUnit
        /\ 0 <= agents_pos[i][2] /\ agents_pos[i][2] < WIN_HEIGHT * PosUnit

\* An agent's candidate left the field in the second tick and move() kept it
\* where it was.
ContainmentWitness ==
    /\ tick >= 1
    /\ last.op = "move"
    /\ last.branch = "reaim"

\* C2: every channel of every trail_map cell lies in [0, 1], in every state
\* and so whenever the field is handed to gui.set_image.
FieldInUnitRange ==
    \A c \in Cells : \A ch \in Channels :
        0 <= trail_map[c][ch] /\ trail_map[c][ch] <= ValUnit

\* The field of the second tick is about to be handed to the renderer and
\* holds a value strictly between 0 and 1 and a value of 0.
FieldInUnitRangeWitness ==
    /\ pc = "set_image"
    /\ tick >= 1
    /\ \E c \in Cells : 0 < trail_map[c][1] /\ trail_map[c][1] < ValUnit
    /\ \E c \in Cells : trail_map[c][1] = 0

\* C3 (Phase barriers): in every tick the calls complete in the order move,
\* process_map, sense; process_map runs only when no agent is left in move,
\* and sense runs only when the process_map pass is complete for every cell,
\* its copy into trail_map included.
PhaseBarriers ==
    /\ pc = "move" => phases = <<>>
    /\ pc \in {"process_map", "copy"} => phases = <<"move">> /\ todo = {}
    /\ pc = "sense" =>
        /\ phases = <<"move", "process_map">>
        /\ todo_cells = {}
        /\ trail_map = diffused_trail_map
    /\ pc = "set_image" => phases = <<"move", "process_map", "sense">>

\* A sensor of the second tick has read the field, into which the tick's
\* move() had deposited.
PhaseBarriersWitness ==
    /\ pc = "sense"
    /\ todo # Agents
    /\ deposited # {}
    /\ tick >= 1

\* C4 (Double buffering): while the first loop of process_map runs, trail_map
\* is the field from before the pass and only diffused_trail_map is written,
\* each cell with the value computed from the field before the pass; the
\* copy then moves exactly those values; so the field after the pass is the
\* same function of the field before it under every order of the cells.
DoubleBuffering ==
    /\ pc = "process_map" =>
        /\ trail_map = pre_map
        /\ \A c \in Cells \ todo_cells :
              diffused_trail_map[c] = DiffusedCell(pre_map, c)
    /\ pc = "copy" =>
        /\ diffused_trail_map = DiffusedField(pre_map)
        /\ \A c \in todo_cells : trail_map[c] = pre_map[c]
        /\ \A c \in Cells \ todo_cells : trail_map[c] = diffused_trail_map[c]
    /\ pc = "sense" => trail_map = DiffusedField(pre_map)

\* A pass is complete on a field with one deposit: the deposit has spread
\* into a neighbour, which an in-place update would have let later cells see.
DoubleBufferingWitness ==
    /\ pc = "sense"
    /\ pre_map[<<1, 1>>] = White
    /\ pre_map[<<0, 0>>] = ZeroVec
    /\ trail_map[<<0, 0>>][1] > 0

\* C5 (Steering rule): a sense() step of agent i, with readings F, FL, FR
\* taken from the state before it, changes agent i's heading by 0 if F is
\* greater than both; else by -rotationStep or +rotationStep if F is less
\* than both; else by -rotationStep if FR > FL; else by +rotationStep if
\* FL > FR; else by 0; and it changes no other agent's heading.  Outside the
\* second case the change is fixed by (F, FL, FR).
SteeringRule ==
    [][ \A i \in Agents :
          (pc = "sense" /\ i \in todo /\ i \notin todo') =>
            LET F == sensor(i, 0)
                FL == sensor(i, SENSOR_ANGLE)
                FR == sensor(i, -SENSOR_ANGLE)
                d == agents_angle'[i] - agents_angle[i]
                ahead == F > FL /\ F > FR
                worst == F < FL /\ F < FR
            IN  /\ ahead => d = 0
                /\ (~ahead /\ worst) =>
                      d \in {-AGENT_ROTATION_ANGLE, AGENT_ROTATION_ANGLE}
                /\ (~ahead /\ ~worst /\ FR > FL) => d = -AGENT_ROTATION_ANGLE
                /\ (~ahead /\ ~worst /\ ~(FR > FL) /\ FL > FR) =>
                      d = AGENT_ROTATION_ANGLE
                /\ (~ahead /\ ~worst /\ ~(FR > FL) /\ ~(FL > FR)) => d = 0
                /\ \A j \in Agents \ {i} : agents_angle'[j] = agents_angle[j]
      ]_vars

\* An agent has just turned right in the second tick, because its right
\* reading was the larger one and its forward reading was not the smallest.
SteeringRuleWitness ==
    /\ last.op = "sense"
    /\ last.branch = "right"
    /\ tick >= 1

\* C6 (In-bounds move): a move() step of agent i whose candidate
\* position + speed * (cos heading, sin heading) lies in the field sets the
\* position to the candidate, keeps the heading, and stores the agent's
\* colour in the cell that holds the candidate (the candidate's coordinates
\* cut to integers), whatever the cell held.
InBoundsMove ==
    [][ \A i \in Agents :
          LET cand == <<agents_pos[i][1] + AGENT_SPEED * Cos(agents_angle[i]),
                        agents_pos[i][2] + AGENT_SPEED * Sin(agents_angle[i])>>
              cell == <<cand[1] \div PosUnit, cand[2] \div PosUnit>>
          IN  ( /\ pc = "move" /\ i \in todo /\ i \notin todo'
                /\ 0 <= cand[1] /\ cand[1] < WIN_WIDTH * PosUnit
                /\ 0 <= cand[2] /\ cand[2] < WIN_HEIGHT * PosUnit ) =>
                /\ agents_pos'[i] = cand
                /\ agents_angle'[i] = agents_angle[i]
                /\ trail_map'[cell] = agents_color[i]
      ]_vars

\* An agent has just moved onto a cell that held a trail left by an earlier
\* tick, and the cell now holds the agent's colour.
InBoundsMoveWitness ==
    /\ last.op = "move"
    /\ last.branch = "deposit"
    /\ pre_move[CellOf(agents_pos[last.agent])][1] > 0
    /\ trail_map[CellOf(agents_pos[last.agent])] = agents_color[last.agent]

\* C7 (Out-of-bounds move): a move() step of agent i whose candidate lies
\* outside the field keeps the position, writes no trail_map cell, and
\* leaves a heading in [0, 2*pi).
OutOfBoundsMove ==
    [][ \A i \in Agents :
          LET cand == <<agents_pos[i][1] + AGENT_SPEED * Cos(agents_angle[i]),
                        agents_pos[i][2] + AGENT_SPEED * Sin(agents_angle[i])>>
          IN  ( /\ pc = "move" /\ i \in todo /\ i \notin todo'
                /\ ~ ( /\ 0 <= cand[1] /\ cand[1] < WIN_WIDTH * PosUnit
                       /\ 0 <= cand[2] /\ cand[2] < WIN_HEIGHT * PosUnit ) ) =>
                /\ agents_pos'[i] = agents_pos[i]
                /\ trail_map' = trail_map
                /\ 0 <= agents_angle'[i] /\ agents_angle'[i] < FullTurn
      ]_vars

\* An agent has just been re-aimed at the edge: no cell was written for it
\* in this tick and the field is the one the tick's move() started from.
OutOfBoundsMoveWitness ==
    /\ last.op = "move"
    /\ last.branch = "reaim"
    /\ deposited = {}
    /\ trail_map = pre_move
    /\ \E c \in Cells : trail_map[c][1] > 0

\* C8: the loop has exited only through its while test, only after an
\* ESCAPE press was delivered, and only with the tick it was in complete
\* (move, process_map, sense and set_image all done).
TickCompletes ==
    pc = "done" =>
        /\ esc_seen
        /\ last.op = "while"
        /\ phases = FullTick

\* The loop has exited after its second tick.
TickCompletesWitness ==
    /\ pc = "done"
    /\ tick >= 2

\* C9, as claimed: once gui.get_events has delivered the ESCAPE press, no
\* step of move, process_map or sense is taken.
NoPhaseAfterQuit ==
    esc_seen => last.op \notin {"move", "process_map", "sense"}

\* C9, amended: once gui.get_events has delivered the ESCAPE press,
\* gui.running is false, the loop body is never entered again, the calls of
\* the tick under way complete in their order, and the while test is reached
\* only with that tick complete.
QuitEndsAfterThisTick ==
    esc_seen =>
        /\ ~running
        /\ pc # "events"
        /\ phases = SubSeq(FullTick, 1, Len(phases))
        /\ pc \in {"while", "done"} => phases = FullTick

\* A sense() step has been taken in the tick whose poll delivered ESCAPE.
QuitEndsAfterThisTickWitness ==
    /\ esc_seen
    /\ pc = "sense"
    /\ todo # Agents
    /\ last.op = "sense"

\* C10, as claimed: when sense() runs, every cell into which move()
\* deposited in this tick still holds the colour deposited.
SenseReadsFreshDeposits ==
    pc = "sense" =>
        \A c \in deposited : \E i \in Agents : trail_map[c] = agents_color[i]

\* C10, amended: when sense() runs, every cell into which move() deposited
\* in this tick (the colour (1, 1, 1)) holds the result of one process_map
\* pass over the field move() left, which in every channel is less than the
\* deposited value: at most 1 - DECAY_RATE.
SenseReadsDiffusedDeposits ==
    pc = "sense" =>
        \A c \in deposited :
            /\ pre_map[c] = White
            /\ trail_map[c] = DiffusedCell(pre_map, c)
            /\ \A ch \in Channels :
                  trail_map[c][ch] <= ValUnit - DECAY_RATE

\* sense() is running in the first tick on a field with a deposit in it,
\* which the pass has lowered.
SenseReadsDiffusedDepositsWitness ==
    /\ pc = "sense"
    /\ tick = 0
    /\ \E c \in deposited :
          0 < trail_map[c][1] /\ trail_map[c][1] < ValUnit


\* C11 (Boundedness), as stated: after every process_map pass that follows
\* no deposit, every channel of every cell is <= the value the same cell and
\* channel had before the pass, and is >= 0.
NonIncreasingPerCell ==
    pc = "sense" =>
        \A c \in Cells : \A ch \in Channels :
            /\ 0 <= trail_map[c][ch]
            /\ trail_map[c][ch] <= pre_map[c][ch]

\* C11 (Boundedness), amended: after every process_map pass, every channel of
\* every cell is >= 0 and is <= the largest value that channel had before the
\* pass in the cell's 3x3 neighbourhood (the cell and its neighbours inside
\* the field); so the largest value of the field never grows.
BoundedByNeighbourhood ==
    pc = "sense" =>
        \A c \in Cells : \A ch \in Channels :
            /\ 0 <= trail_map[c][ch]
            /\ \E d \in Cells :
                  /\ d[1] - c[1] \in -1 .. 1
                  /\ d[2] - c[2] \in -1 .. 1
                  /\ trail_map[c][ch] <= pre_map[d][ch]

\* A pass has raised one cell (diffusion from a neighbour) and lowered
\* another.
BoundedByNeighbourhoodWitness ==
    /\ pc = "sense"
    /\ last.branch = "copy"
    /\ \E c \in Cells : trail_map[c][1] > pre_map[c][1]
    /\ \E c \in Cells : trail_map[c][1] < pre_map[c][1]

\* C12 (Diffusion/decay result): after a process_map pass every channel of
\* every cell (i, j), edge and corner cells included, is
\* max(0, original * (1 - diffuseRate) + mean * diffuseRate - decayRate),
\* mean being one ninth of the sum of the nine values of the field before the
\* pass at (clamp(i + dx, 0, width - 1), clamp(j + dy, 0, height - 1)),
\* dx, dy in {-1, 0, 1}.
DiffusionResult ==
    pc = "sense" =>
        \A c \in Cells : \A ch \in Channels :
            LET cl(x, hi) == IF x < 0 THEN 0 ELSE IF x > hi THEN hi ELSE x
                s(dx, dy) == pre_map[<<cl(c[1] + dx, WIN_WIDTH - 1),
                                       cl(c[2] + dy, WIN_HEIGHT - 1)>>][ch]
                nine == s(-1, -1) + s(-1, 0) + s(-1, 1)
                      + s(0, -1) + s(0, 0) + s(0, 1)
                      + s(1, -1) + s(1, 0) + s(1, 1)
                mixed == (9 * pre_map[c][ch] * (ValUnit - DIFFUSE_RATE)
                          + nine * DIFFUSE_RATE) \div (9 * ValUnit)
            IN  trail_map[c][ch] =
                    IF mixed - DECAY_RATE > 0 THEN mixed - DECAY_RATE ELSE 0

\* A pass is complete on a field with white in the corner (0, 0) and in its
\* neighbour (1, 0) on a grey background: the corner has lost value and the
\* edge cell (0, 1) has gained some.
DiffusionResultWitness ==
    /\ pc = "sense"
    /\ pre_map[<<0, 0>>] = White
    /\ pre_map[<<1, 0>>] = White
    /\ pre_map[<<0, 1>>][1] = ValUnit \div 2
    /\ trail_map[<<0, 0>>][1] < ValUnit
    /\ trail_map[<<0, 1>>][1] > ValUnit \div 2

\* C13 (Uniform-field fixpoint): if every channel of every cell is the same
\* value v before a process_map pass, then after it every channel of every
\* cell, corners and edges included, is max(0, v - decayRate); and lines
\* 73-78 give that value for every diffusion rate.
UniformFixpoint ==
    LET v == pre_map[<<0, 0>>][1]
        after == IF v > DECAY_RATE THEN v - DECAY_RATE ELSE 0
    IN  (/\ pc = "sense"
         /\ \A c \in Cells : \A ch \in Channels : pre_map[c][ch] = v)
        => /\ \A c \in Cells : \A ch \in Channels : trail_map[c][ch] = after
           /\ \A rate \in {0, DIFFUSE_RATE, ValUnit \div 2, ValUnit} :
                \A c \in Cells :
                    Decay(BlendWith(rate, v, SumBlur(pre_map, c)[1])) = after

\* A pass is complete on the uniform field of value 1/2.
UniformFixpointWitness ==
    /\ pc = "sense"
    /\ pre_map = Uniform(ValUnit \div 2)
    /\ trail_map = Uniform((ValUnit \div 2) - DECAY_RATE)

\* C19 (Trails fade out): when process_map is called again and again with no
\* deposit in between, every channel of every cell is eventually 0 and stays
\* 0 under all further passes.
TrailsFadeOut == <>[](trail_map = ZeroField)

\* A pass has just turned the last non-zero values of a field, the remains
\* of a deposit, into zeros.
TrailsFadeOutWitness ==
    /\ pc = "sense"
    /\ last.branch = "copy"
    /\ \E c, d \in Cells : pre_map[c][1] > pre_map[d][1]
    /\ trail_map = ZeroField


\* C14 (Sensor window): a reading of sense() is the sum, over the window of
\* side 2 * SENSOR_SCALE + 1 (one sample, SENSOR_SCALE being 0) centred at
\* position + SENSOR_OFFSET * (cos, sin)(heading + angleOffset), of
\* (2 * fieldValue - 1) . (2 * agentColor - 1) at the cell that contains the
\* sample, for every sample whose cell is inside the field; a sample whose
\* cell is outside the field adds nothing (it is neither clamped nor
\* wrapped).
SensorWindow ==
    pc = "sense" =>
        \A i \in Agents : \A a \in {-SENSOR_ANGLE, 0, SENSOR_ANGLE} :
            LET h == (agents_angle[i] + a) % FullTurn
                cx == agents_pos[i][1] + CosTable[h + 1] * SENSOR_OFFSET
                cy == agents_pos[i][2]
                        + CosTable[((h - 2) % FullTurn) + 1] * SENSOR_OFFSET
                cell == <<cx \div PosUnit, cy \div PosUnit>>
                dot == (2 * trail_map[cell][1] - ValUnit)
                           * (2 * agents_color[i][1] - ValUnit)
                     + (2 * trail_map[cell][2] - ValUnit)
                           * (2 * agents_color[i][2] - ValUnit)
                     + (2 * trail_map[cell][3] - ValUnit)
                           * (2 * agents_color[i][3] - ValUnit)
            IN  /\ SENSOR_SCALE = 0
                /\ sensor(i, a) = IF cell \in Cells THEN dot ELSE 0

\* sense() has steered an agent to the left whose forward sample was outside
\* the field (reading 0) and whose left sample was inside it, on a cell of
\* positive value.
SensorWindowWitness ==
    /\ pc = "sense"
    /\ last.op = "sense"
    /\ last.branch = "left"
    /\ \E i \in todo :
        /\ ~SampleInField(SensorCentre(i, 0))
        /\ sensor(i, 0) = 0
        /\ SampleInField(SensorCentre(i, SENSOR_ANGLE))
        /\ trail_map[CellOf(SensorCentre(i, SENSOR_ANGLE))][1] > 0

\* C15 (Zero-field sensing), as stated: on an all-zero trail field every
\* reading of sense() is 0, for every agent position and heading.
ZeroFieldReadsZero ==
    (pc = "sense" /\ trail_map = ZeroField) =>
        \A i \in Agents : \A a \in {-SENSOR_ANGLE, 0, SENSOR_ANGLE} :
            sensor(i, a) = 0

\* C15 (Zero-field sensing), amended: on an all-zero trail field a reading
\* of sense() is -3, the dot product of (-1, -1, -1) with 2 * color - 1 for
\* the colour (1, 1, 1), when its sample is inside the field and 0 when it is
\* outside, for every agent position and heading; so F = FL = FR = -3 when
\* all three samples are inside.
ZeroFieldReading ==
    (pc = "sense" /\ trail_map = ZeroField) =>
        \A i \in Agents : \A a \in {-SENSOR_ANGLE, 0, SENSOR_ANGLE} :
            LET h == (agents_angle[i] + a) % FullTurn
                cx == agents_pos[i][1] + CosTable[h + 1] * SENSOR_OFFSET
                cy == agents_pos[i][2]
                        + CosTable[((h - 2) % FullTurn) + 1] * SENSOR_OFFSET
                inside == /\ 0 <= cx /\ cx < WIN_WIDTH * PosUnit
                          /\ 0 <= cy /\ cy < WIN_HEIGHT * PosUnit
            IN  sensor(i, a) = IF inside THEN -3 * ValUnit * ValUnit ELSE 0

\* On the all-zero field sense() has handled an agent whose three samples
\* were all inside the field: the readings tied at -3 and another agent in
\* the same pose is still to be handled.
ZeroFieldReadingWitness ==
    /\ pc = "sense"
    /\ trail_map = ZeroField
    /\ last.op = "sense"
    /\ last.branch = "tie"
    /\ \E i \in todo :
        /\ \A a \in {-SENSOR_ANGLE, 0, SENSOR_ANGLE} :
              SampleInField(SensorCentre(i, a))
        /\ sensor(i, 0) = -3 * ValUnit * ValUnit


\* C17 (Last-write-wins deposits): when a move() pass is complete, under
\* every order of the agents, every cell that is the cell of an in-bounds
\* candidate of some agent holds exactly the colour of one of the agents
\* whose candidate it was, and every other cell holds the value it had before
\* the pass.
LastWriteWins ==
    pc = "process_map" =>
        \A c \in Cells :
            LET tx(i) == pre_agents[1][i][1]
                          + CosTable[(pre_agents[2][i] % FullTurn) + 1]
                              * AGENT_SPEED
                ty(i) == pre_agents[1][i][2]
                          + CosTable[((pre_agents[2][i] - 2) % FullTurn) + 1]
                              * AGENT_SPEED
                T == { i \in Agents :
                         /\ 0 <= tx(i) /\ tx(i) < WIN_WIDTH * PosUnit
                         /\ 0 <= ty(i) /\ ty(i) < WIN_HEIGHT * PosUnit
                         /\ c = <<tx(i) \div PosUnit, ty(i) \div PosUnit>> }
            IN  IF T # {}
                  THEN \E i \in T : trail_map[c] = agents_color[i]
                  ELSE trail_map[c] = pre_move[c]

\* The move() pass of a later tick is complete: two agents have stored into
\* one cell, and a cell that no agent stored into keeps the non-zero value it
\* had.
LastWriteWinsWitness ==
    /\ pc = "process_map"
    /\ tick >= 1
    /\ \E i, j \in Agents :
        /\ i # j
        /\ agents_pos[i] # pre_agents[1][i]
        /\ agents_pos[j] # pre_agents[1][j]
        /\ CellOf(agents_pos[i]) = CellOf(agents_pos[j])
    /\ \E d \in Cells \ deposited :
        /\ pre_move[d][1] > 0
        /\ trail_map[d] = pre_move[d]

\* C18 (Ownership): a step of sense() changes agent headings only, no
\* position, colour or field cell; a step of process_map() changes the two
\* field buffers only, no agent state; a step of move() changes, for one
\* agent, its position or its heading (not both), and no field cell but the
\* one of its new position, and that only if it moved; and once
\* initialize_agents has returned no step changes a colour or the number of
\* agents.
Ownership ==
    [][ /\ pc = "sense" =>
              /\ agents_pos' = agents_pos
              /\ agents_color' = agents_color
              /\ trail_map' = trail_map
              /\ diffused_trail_map' = diffused_trail_map
        /\ pc \in {"process_map", "copy"} =>
              /\ agents_pos' = agents_pos
              /\ agents_angle' = agents_angle
              /\ agents_color' = agents_color
        /\ pc = "move" =>
              /\ diffused_trail_map' = diffused_trail_map
              /\ \E i \in Agents :
                  /\ \A j \in Agents \ {i} :
                        /\ agents_pos'[j] = agents_pos[j]
                        /\ agents_angle'[j] = agents_angle[j]
                  /\ \/ agents_pos'[i] = agents_pos[i]
                     \/ agents_angle'[i] = agents_angle[i]
                  /\ agents_pos'[i] = agents_pos[i] => trail_map' = trail_map
                  /\ \A c \in Cells :
                        c # <<agents_pos'[i][1] \div PosUnit,
                              agents_pos'[i][2] \div PosUnit>>
                            => trail_map'[c] = trail_map[c]
        /\ pc # "initialize_agents" =>
              /\ agents_color' = agents_color
              /\ DOMAIN agents_pos' = DOMAIN agents_pos
              /\ DOMAIN agents_angle' = DOMAIN agents_angle
              /\ DOMAIN agents_color' = DOMAIN agents_color
      ]_vars

\* In a later tick move() has stored into the field, process_map() has
\* rewritten it and sense() has turned the last agent to the left.
OwnershipWitness ==
    /\ pc = "set_image"
    /\ tick >= 1
    /\ deposited # {}
    /\ trail_map # pre_map
    /\ last.op = "sense"
    /\ last.branch = "left"

\* C20 (The deposit race is benign): every agent has the colour (1, 1, 1),
\* so when a move() pass is complete a cell holds the colour of every agent
\* whose in-bounds candidate it was, whichever of them stored last, and every
\* other cell holds its value from before the pass: the field after the pass
\* is fixed by the state before the pass, under every order of the agents.
DepositOrderIrrelevant ==
    pc = "process_map" =>
        /\ \A i \in Agents : agents_color[i] = <<ValUnit, ValUnit, ValUnit>>
        /\ \A c \in Cells :
            LET tx(i) == pre_agents[1][i][1]
                          + CosTable[(pre_agents[2][i] % FullTurn) + 1]
                              * AGENT_SPEED
                ty(i) == pre_agents[1][i][2]
                          + CosTable[((pre_agents[2][i] - 2) % FullTurn) + 1]
                              * AGENT_SPEED
                T == { i \in Agents :
                         /\ 0 <= tx(i) /\ tx(i) < WIN_WIDTH * PosUnit
                         /\ 0 <= ty(i) /\ ty(i) < WIN_HEIGHT * PosUnit
                         /\ c = <<tx(i) \div PosUnit, ty(i) \div PosUnit>> }
            IN  /\ \A i \in T : trail_map[c] = agents_color[i]
                /\ T = {} => trail_map[c] = pre_move[c]

\* A move() pass is complete in which two agents stored into one cell and
\* the one of the lower index stored last.
DepositOrderIrrelevantWitness ==
    /\ pc = "process_map"
    /\ last.op = "move"
    /\ last.branch = "deposit"
    /\ \E j \in Agents :
        /\ last.agent < j
        /\ agents_pos[j] # pre_agents[1][j]
        /\ CellOf(agents_pos[j]) = CellOf(agents_pos[last.agent])


\* C16 (Straight-line scenario): on the 10x10 field that starts all zero,
\* with decay 0, diffuse 0 and one agent at (5, 5) with heading 0, after k
\* ticks the position is (5 + k * speed, 5) and the heading is still 0,
\* sense() passes included, for every k up to the first tick whose
\* candidate leaves the field; in that tick the position stays what it was
\* and move() assigns a new heading.
StraightLine ==
    LET k == tick + (IF pc \in {"process_map", "copy", "sense", "set_image"}
                       THEN 1 ELSE 0)
        reach == LineWidth - 1 - 5
    IN  /\ k <= reach =>
              /\ agents_pos[0] = <<(5 + k * AGENT_SPEED) * PosUnit, 5 * PosUnit>>
              /\ agents_angle[0] = 0
        /\ k = reach + 1 =>
              /\ agents_pos[0] = <<(5 + reach * AGENT_SPEED) * PosUnit,
                                   5 * PosUnit>>
              /\ pc = "process_map" =>
                    /\ last.op = "move"
                    /\ last.branch = "reaim"
                    /\ agents_angle[0] \in 0 .. FullTurn - 1
                    /\ trail_map = pre_move

\* The tick in which the candidate (10, 5) left the field is complete: the
\* agent is still at (9, 5), where the ticks before had taken it, and has a
\* new heading.
StraightLineWitness ==
    /\ pc = "set_image"
    /\ tick = LineWidth - 1 - 5
    /\ agents_pos[0] = <<(LineWidth - 1) * PosUnit, 5 * PosUnit>>
    /\ agents_angle[0] # 0
    /\ deposited = {}

====
